---- MODULE Spec2Model ----
(***************************************************************************)
(* Model of src/flask.py: a Flask application with a User table, a Post    *)
(* table, JWT login, the token_required decorator and the CRUD routes on   *)
(* /posts.                                                                 *)
(*                                                                         *)
(* A request occupies a slot r.  A protected route takes three steps: the  *)
(* request arrives (before_request: Flask pushes a fresh context g),       *)
(* token_required runs, and the route's body runs: create_post in one      *)
(* step, update_post and delete_post in two, the query that loads the row  *)
(* and the commit that writes it, with other requests free to run between. *)
(* /register, /login and GET /posts run in one step.  The slot keeps the   *)
(* request and its response until the next request takes the slot.  Time   *)
(* is the UTC clock in whole seconds, the unit of a JWT NumericDate.       *)
(***************************************************************************)
EXTENDS Integers, Sequences, FiniteSets, TLC

VARIABLES users, posts, now, wallet, pc, req, g, session, resp

vars == <<users, posts, now, wallet, pc, req, g, session, resp>>

(* ------------------------------ bounds -------------------------------- *)

MaxPosts == 2
MaxTicks == 2
MaxPage == 4
MaxTable == 12

Req == {1, 2}
Usernames == {"alice", "bob"}
Passwords == {"pw1", "pw2"}
Titles == {"Hi", "X"}
Contents == {"C"}

(* ------------------------- program constants -------------------------- *)

SECRET_KEY == "super-secret-key"
TokenLifetime == 3600
per_page == 5

(* ------------------------------ values -------------------------------- *)

\* A JSON key that the body does not hold / Python's None.
Absent == "<absent>"
\* No row id, no bound identity.
Nil == 0
\* A claim the token's payload does not hold.
NoClaim == -1

\* The password each username registers with.
Chosen(username) == IF username = "bob" THEN "pw2" ELSE "pw1"

ProtectedOps == {"create_post", "update_post", "delete_post"}

\* The value of the Authorization header.  form "absent": no header;
\* "empty": the empty string; "garbage": a string that is no JWT; "jwt": a
\* well-formed HS256 token with its payload and the key that signed it.
NoHeader == [form |-> "absent", user_id |-> NoClaim, exp |-> NoClaim, key |-> ""]
EmptyHeader == [form |-> "empty", user_id |-> NoClaim, exp |-> NoClaim, key |-> ""]
Garbage == [form |-> "garbage", user_id |-> NoClaim, exp |-> NoClaim, key |-> ""]
WrongKey == [form |-> "jwt", user_id |-> 1, exp |-> NoClaim, key |-> "other-key"]
NoUserId == [form |-> "jwt", user_id |-> NoClaim, exp |-> NoClaim, key |-> SECRET_KEY]
ForgedHeaders == {NoHeader, EmptyHeader, Garbage, WrongKey, NoUserId}

EmptyG == [user_id |-> Nil]
\* db.session of a request that has loaded no row.
NoPost == [id |-> Nil, title |-> Absent, content |-> Absent, user_id |-> Nil]
NoReq == [op |-> "none", token |-> NoHeader, id |-> Nil, title |-> Absent,
          content |-> Absent, username |-> Absent, password |-> Absent,
          page |-> Nil]
NoResp == [status |-> 0, msg |-> "", token |-> NoHeader, items |-> <<>>]

Response(status, msg) ==
    [status |-> status, msg |-> msg, token |-> NoHeader, items |-> <<>>]

(* --------------------------- the database ----------------------------- *)

\* An INTEGER PRIMARY KEY column: a new row gets the largest id in the
\* table plus one (SQLite's rowid, declared without AUTOINCREMENT).
NextId(table) ==
    IF table = {} THEN 1
    ELSE (CHOOSE i \in {x.id : x \in table} : \A x \in table : x.id <= i) + 1

\* User.query.filter_by(username=...).first(): the matching rows (at most
\* one, the column is unique).
UsersNamed(username) == {u \in users : u.username = username}

\* Variant of PostQuery: a query filtered by the requester's id.
OwnPosts(r) == {p \in posts : p.user_id = g[r].user_id}

\* Post.query in the request of slot r: every row of the table, whoever
\* owns it.
PostQuery(r) == posts

\* query.get_or_404(id): the matching rows; none aborts with 404.
get_or_404(rows, id) == {p \in rows : p.id = id}

\* The table in primary-key order, as a SELECT without ORDER BY on SQLite
\* returns it.
RECURSIVE ById(_)
ById(table) ==
    IF table = {} THEN <<>>
    ELSE LET first == CHOOSE p \in table : \A q \in table : p.id <= q.id
         IN  <<first>> \o ById(table \ {first})

Min(a, b) == IF a <= b THEN a ELSE b

\* Variant of Paginate: pages counted from 0.
PaginateShifted(table, page) ==
    LET rows == ById(table)
        items == SubSeq(rows, page * per_page + 1,
                        Min((page + 1) * per_page, Len(rows)))
    IN  IF page < 1 \/ (items = <<>> /\ page # 1)
        THEN [status |-> 404, items |-> <<>>]
        ELSE [status |-> 200, items |-> items]

\* Post.query.paginate(page=page, per_page=per_page), error_out left at its
\* default True: 404 for a page below 1, and for a page other than the
\* first that holds no row.
Paginate(table, page) ==
    LET rows == ById(table)
        items == SubSeq(rows, (page - 1) * per_page + 1,
                        Min(page * per_page, Len(rows)))
    IN  IF page < 1 \/ (items = <<>> /\ page # 1)
        THEN [status |-> 404, items |-> <<>>]
        ELSE [status |-> 200, items |-> items]

\* The JSON object get_posts builds for a row.
PostJson(p) == [id |-> p.id, title |-> p.title, content |-> p.content]

(* ------------------------------ tokens -------------------------------- *)

\* The exp claim login puts in the payload.
TokenExpiry(t) == t + TokenLifetime

\* jwt.encode(payload, key, algorithm="HS256")
jwt_encode(user_id, exp, key) ==
    [form |-> "jwt", user_id |-> user_id, exp |-> exp, key |-> key]

\* Variant of jwt_decode: a token still passes at its expiry instant.
jwt_decode_late(token, key, t) ==
    /\ token.form = "jwt"
    /\ token.key = key
    /\ (token.exp = NoClaim \/ token.exp >= t)

\* Variant of jwt_decode: the signature is not checked.
jwt_decode_unverified(token, key, t) ==
    /\ token.form = "jwt"
    /\ (token.exp = NoClaim \/ token.exp > t)

\* jwt.decode(token, key, algorithms=["HS256"]) at instant t: TRUE when it
\* returns the payload, FALSE when it raises (not a JWT, a signature made
\* with another key, an exp claim that is not after t).
jwt_decode(token, key, t) ==
    /\ token.form = "jwt"
    /\ token.key = key
    /\ (token.exp = NoClaim \/ token.exp > t)

\* request.headers.get("Authorization") followed by "if not token": no
\* header, or an empty one.
HeaderMissing(token) == token.form \in {"absent", "empty"}

\* Variant of HasUserId: data.get("user_id"), which never raises.
HasUserIdAlways(token) == TRUE

\* data["user_id"] raises KeyError when the payload holds no user_id.
HasUserId(token) == token.user_id # NoClaim

\* Variant of BindUser: one g for the whole process.
BindUserProcessWide(ctx, r, uid) == [q \in Req |-> [user_id |-> uid]]

\* g.user_id = data["user_id"]: g is the context of the request that runs.
BindUser(ctx, r, uid) == [ctx EXCEPT ![r] = [user_id |-> uid]]

\* Variant of PasswordOk: the comparison inverted.
PasswordInverted(user, password) == user.password # password

\* user.password != data["password"], negated: the credentials match.
PasswordOk(user, password) == user.password = password

\* Variant of PostOwner: data.get("user_id"), which the body does not hold.
PostOwnerFromBody(r) == Nil

\* user_id=g.user_id in create_post.
PostOwner(r) == g[r].user_id

\* Variant of Merge: data.get(key), None for an omitted key.
Replace(supplied, old) == supplied

\* data.get(key, old): the supplied value, or the stored one.
Merge(supplied, old) == IF supplied = Absent THEN old ELSE supplied

\* Variant of DeleteRow: every row of the post's owner goes.
DeleteByOwner(table, post) == {p \in table : p.user_id # post.user_id}

\* db.session.delete(post) and the commit: DELETE FROM post WHERE id = the
\* loaded object's id.
DeleteRow(table, post) == {p \in table : p.id # post.id}

(* --------------------------- initial state ---------------------------- *)

Init ==
    /\ users = {}
    /\ posts = {}
    /\ now = 0
    /\ wallet = {}
    /\ pc = [r \in Req |-> "idle"]
    /\ req = [r \in Req |-> NoReq]
    /\ g = [r \in Req |-> EmptyG]
    /\ session = [r \in Req |-> NoPost]
    /\ resp = [r \in Req |-> NoResp]

(* ------------------------------ actions ------------------------------- *)

Free(r) == pc[r] \in {"idle", "done"}

\* The response leaves and Flask pops the request's context, which removes
\* the request's db.session.
Finish(r, request, response) ==
    /\ req' = [req EXCEPT ![r] = request]
    /\ resp' = [resp EXCEPT ![r] = response]
    /\ pc' = [pc EXCEPT ![r] = "done"]
    /\ g' = [g EXCEPT ![r] = EmptyG]
    /\ session' = [session EXCEPT ![r] = NoPost]

\* The clock advances.
Tick ==
    /\ now + TokenLifetime <= MaxTicks * TokenLifetime
    /\ now' = now + TokenLifetime
    /\ UNCHANGED <<users, posts, wallet, pc, req, g, session, resp>>

\* A request for a protected route arrives with its Authorization header,
\* one of headers, and the id of its path: Flask pushes a fresh g and runs
\* before_request (g.start_time, which nothing reads, is left out).
before_request(r, ops, headers) ==
    /\ Free(r)
    /\ \E op \in ops, token \in headers :
         \E id \in (IF op = "create_post" THEN {Nil} ELSE 1..MaxPosts) :
            req' = [req EXCEPT ![r] =
                       [NoReq EXCEPT !.op = op, !.token = token, !.id = id]]
    /\ pc' = [pc EXCEPT ![r] = "gate"]
    /\ g' = [g EXCEPT ![r] = EmptyG]
    /\ resp' = [resp EXCEPT ![r] = NoResp]
    /\ UNCHANGED <<users, posts, now, wallet, session>>

\* decorated(): the wrapper token_required puts around a route.
token_required(r) ==
    /\ pc[r] = "gate"
    /\ LET token == req[r].token
       IN  IF HeaderMissing(token)
           THEN Finish(r, req[r], Response(401, "Token missing"))
           ELSE IF ~jwt_decode(token, SECRET_KEY, now) \/ ~HasUserId(token)
           THEN Finish(r, req[r], Response(401, "Invalid token"))
           ELSE /\ g' = BindUser(g, r, token.user_id)
                /\ pc' = [pc EXCEPT ![r] = "handler"]
                /\ UNCHANGED <<req, resp, session>>
    /\ UNCHANGED <<users, posts, now, wallet>>

\* POST /register
register(r) ==
    /\ Free(r)
    /\ \E username \in Usernames \cup {Absent} :
         LET password == Chosen(username)
             request == [NoReq EXCEPT !.op = "register",
                                      !.username = username,
                                      !.password = password]
         IN  IF username = Absent \/ UsersNamed(username) # {}
             THEN \* KeyError, or the unique constraint fails the commit
                  /\ Finish(r, request, Response(500, "Server error"))
                  /\ UNCHANGED users
             ELSE /\ users' = users \cup {[id |-> NextId(users),
                                          username |-> username,
                                          password |-> password]}
                  /\ Finish(r, request, Response(201, "User created"))
    /\ UNCHANGED <<posts, now, wallet>>

\* POST /login.  The client keeps the token of the latest login in its
\* wallet.
login(r) ==
    /\ Free(r)
    /\ \E username \in Usernames \cup {Absent}, password \in Passwords :
         LET request == [NoReq EXCEPT !.op = "login",
                                      !.username = username,
                                      !.password = password]
             found == UsersNamed(username)
         IN  IF username = Absent
             THEN /\ Finish(r, request, Response(500, "Server error"))
                  /\ UNCHANGED wallet
             ELSE IF found = {} \/ \A u \in found : ~PasswordOk(u, password)
             THEN /\ Finish(r, request, Response(401, "Invalid credentials"))
                  /\ UNCHANGED wallet
             ELSE LET user == CHOOSE u \in found : TRUE
                      token == jwt_encode(user.id, TokenExpiry(now), SECRET_KEY)
                  IN  /\ Finish(r, request,
                                [Response(200, "") EXCEPT !.token = token])
                      /\ wallet' = {token}
    /\ UNCHANGED <<users, posts, now>>

\* GET /posts?page=N
get_posts(r) ==
    /\ Free(r)
    /\ \E page \in 0..MaxPage :
         LET request == [NoReq EXCEPT !.op = "get_posts", !.page = page]
             result == Paginate(posts, page)
         IN  IF result.status = 404
             THEN Finish(r, request, Response(404, "Not found"))
             ELSE Finish(r, request,
                         [Response(200, "") EXCEPT !.items =
                             [i \in 1..Len(result.items) |->
                                 PostJson(result.items[i])]])
    /\ UNCHANGED <<users, posts, now, wallet>>

\* POST /posts, behind token_required
create_post(r) ==
    /\ pc[r] = "handler"
    /\ req[r].op = "create_post"
    /\ \E title \in Titles \cup {Absent}, content \in Contents \cup {Absent} :
         LET request == [req[r] EXCEPT !.title = title, !.content = content]
         IN  IF title = Absent \/ content = Absent
             THEN \* KeyError
                  /\ Finish(r, request, Response(500, "Server error"))
                  /\ UNCHANGED posts
             ELSE /\ NextId(posts) <= MaxPosts
                  /\ posts' = posts \cup {[id |-> NextId(posts),
                                          title |-> title,
                                          content |-> content,
                                          user_id |-> PostOwner(r)]}
                  /\ Finish(r, request, Response(201, "Post created"))
    /\ UNCHANGED <<users, now, wallet>>

\* PUT /posts/<id>, behind token_required: Post.query.get_or_404(id)
\* loads the row into the request's session, or aborts with 404.
update_post_query(r) ==
    /\ pc[r] = "handler"
    /\ req[r].op = "update_post"
    /\ LET found == get_or_404(PostQuery(r), req[r].id)
       IN  IF found = {}
           THEN Finish(r, req[r], Response(404, "Not found"))
           ELSE /\ session' = [session EXCEPT ![r] = CHOOSE p \in found : TRUE]
                /\ pc' = [pc EXCEPT ![r] = "commit"]
                /\ UNCHANGED <<req, resp, g>>
    /\ UNCHANGED <<users, posts, now, wallet>>

\* update_post from request.json to the response.  The body's fields are set
\* on the loaded object and db.session.commit() flushes it: no statement
\* when no attribute differs from its loaded value; otherwise an UPDATE of
\* the attributes that differ on the row with the object's id, which
\* raises StaleDataError (500, nothing written) when no row has that id.
update_post_commit(r) ==
    /\ pc[r] = "commit"
    /\ req[r].op = "update_post"
    /\ \E title \in Titles \cup {Absent}, content \in Contents \cup {Absent} :
         LET post == session[r]
             request == [req[r] EXCEPT !.title = title, !.content = content]
             new_title == Merge(title, post.title)
             new_content == Merge(content, post.content)
             rows == {p \in posts : p.id = post.id}
         IN  IF new_title = post.title /\ new_content = post.content
             THEN /\ posts' = posts
                  /\ Finish(r, request, Response(200, "Post updated"))
             ELSE IF rows = {}
             THEN /\ posts' = posts
                  /\ Finish(r, request, Response(500, "Server error"))
             ELSE /\ posts' = (posts \ rows) \cup
                        {[p EXCEPT
                            !.title = IF new_title # post.title
                                      THEN new_title ELSE p.title,
                            !.content = IF new_content # post.content
                                        THEN new_content ELSE p.content] :
                         p \in rows}
                  /\ Finish(r, request, Response(200, "Post updated"))
    /\ UNCHANGED <<users, now, wallet>>

\* DELETE /posts/<id>, behind token_required: Post.query.get_or_404(id)
delete_post_query(r) ==
    /\ pc[r] = "handler"
    /\ req[r].op = "delete_post"
    /\ LET found == get_or_404(PostQuery(r), req[r].id)
       IN  IF found = {}
           THEN Finish(r, req[r], Response(404, "Not found"))
           ELSE /\ session' = [session EXCEPT ![r] = CHOOSE p \in found : TRUE]
                /\ pc' = [pc EXCEPT ![r] = "commit"]
                /\ UNCHANGED <<req, resp, g>>
    /\ UNCHANGED <<users, posts, now, wallet>>

\* delete_post from db.session.delete(post) to the response: the commit
\* issues a DELETE of the row with the object's id, and only warns when no
\* row has it.
delete_post_commit(r) ==
    /\ pc[r] = "commit"
    /\ req[r].op = "delete_post"
    /\ posts' = DeleteRow(posts, session[r])
    /\ Finish(r, req[r], Response(200, "Post deleted"))
    /\ UNCHANGED <<users, now, wallet>>

(* --------------------------- specifications --------------------------- *)

\* Requests served one at a time.
Next ==
    \/ Tick
    \/ before_request(1, ProtectedOps, wallet \cup ForgedHeaders)
    \/ token_required(1)
    \/ register(1)
    \/ login(1)
    \/ get_posts(1)
    \/ create_post(1)
    \/ update_post_query(1)
    \/ update_post_commit(1)
    \/ delete_post_query(1)
    \/ delete_post_commit(1)

Spec == Init /\ [][Next]_vars

\* Two requests in flight at once, as the threaded server runs them, from
\* the state in which both users have registered and logged in at instant
\* 0: the protected routes, the requests in slot r carrying the token of
\* the user with id r.
InitConc ==
    /\ users = {[id |-> 1, username |-> "alice", password |-> Chosen("alice")],
                [id |-> 2, username |-> "bob", password |-> Chosen("bob")]}
    /\ posts = {}
    /\ now = 0
    /\ wallet = {jwt_encode(u.id, TokenExpiry(now), SECRET_KEY) : u \in users}
    /\ pc = [r \in Req |-> "idle"]
    /\ req = [r \in Req |-> NoReq]
    /\ g = [r \in Req |-> EmptyG]
    /\ session = [r \in Req |-> NoPost]
    /\ resp = [r \in Req |-> NoResp]

NextConc ==
    \E r \in Req :
        \/ before_request(r, ProtectedOps, {t \in wallet : t.user_id = r})
        \/ token_required(r)
        \/ create_post(r)
        \/ update_post_query(r)
        \/ update_post_commit(r)
        \/ delete_post_query(r)
        \/ delete_post_commit(r)

SpecConc == InitConc /\ [][NextConc]_vars

\* GET /posts on every table of at most MaxTable rows with ids in
\* 1..MaxTable (rows created by one user, some deleted since).
TableOf(ids) ==
    {[id |-> i, title |-> "Hi", content |-> "C", user_id |-> 1] : i \in ids}

InitPage ==
    /\ users = {[id |-> 1, username |-> "alice", password |-> Chosen("alice")]}
    /\ posts \in {TableOf(ids) : ids \in SUBSET (1..MaxTable)}
    /\ now = 0
    /\ wallet = {}
    /\ pc = [r \in Req |-> "idle"]
    /\ req = [r \in Req |-> NoReq]
    /\ g = [r \in Req |-> EmptyG]
    /\ session = [r \in Req |-> NoPost]
    /\ resp = [r \in Req |-> NoResp]

NextPage == get_posts(1)

SpecPage == InitPage /\ [][NextPage]_vars

(* ------------------------------- claims ------------------------------- *)

\* What the claims mean by a token that verifies at instant t: a JWT signed
\* with the application's secret, holding a user_id, not yet expired.
Verified(token, t) ==
    /\ token.form = "jwt"
    /\ token.key = "super-secret-key"
    /\ token.user_id # NoClaim
    /\ (token.exp = NoClaim \/ t < token.exp)

\* Slot r takes a step.
Steps(r) ==
    <<pc[r], req[r], resp[r], g[r], session[r]>> #
        <<pc'[r], req'[r], resp'[r], g'[r], session'[r]>>

\* Slot r is in the body of a protected route: before its query or create,
\* or between the query and the commit of an update or a delete.
InBody(r) == pc[r] \in {"handler", "commit"}

\* C1: the body of a protected route runs only in a request whose
\* Authorization header was present and verified at the gate, with the
\* token's user id bound to that request's g; a request whose header is
\* missing or does not verify never reaches the body, and only a body
\* writes the Post table or answers anything but 401.
C1_BodyOnlyBehindGate ==
    /\ [](\A r \in Req : InBody(r) =>
             /\ req[r].op \in ProtectedOps
             /\ req[r].token.form = "jwt"
             /\ req[r].token.key = "super-secret-key"
             /\ req[r].token.user_id # NoClaim
             /\ g[r].user_id = req[r].token.user_id)
    /\ [][\A r \in Req :
             /\ (pc'[r] = "handler" /\ pc[r] # "handler") =>
                   /\ pc[r] = "gate"
                   /\ Verified(req[r].token, now)
                   /\ req'[r] = req[r]
             /\ (pc'[r] = "commit" /\ pc[r] # "commit") => pc[r] = "handler"
             /\ (pc[r] = "gate" /\ ~Verified(req[r].token, now)) =>
                   ~InBody(r)'
             /\ (Steps(r) /\ req'[r].op \in ProtectedOps /\ pc'[r] = "done"
                          /\ resp'[r].status # 401) =>
                   InBody(r)
             /\ (Steps(r) /\ posts' # posts) => InBody(r)]_vars

\* C1 witness: a protected request stands at its body behind the gate.
C1_Witness ==
    \E r \in Req :
        /\ pc[r] = "handler"
        /\ req[r].op \in ProtectedOps
        /\ g[r].user_id = req[r].token.user_id
        /\ \E u \in users : u.id = g[r].user_id

\* C2: create post with no Authorization header, or with one that does not
\* verify, answers 401 and leaves the Post and User tables as they were.
C2_CreateUnauthorized ==
    [][\A r \in Req :
          (/\ pc[r] = "gate"
           /\ req[r].op = "create_post"
           /\ ~Verified(req[r].token, now)
           /\ Steps(r)) =>
              /\ pc'[r] = "done"
              /\ resp'[r].status = 401
              /\ posts' = posts
              /\ users' = users]_vars

\* C2 witness: a create post without a verifying header was answered 401
\* while both tables held rows.
C2_Witness ==
    \E r \in Req :
        /\ pc[r] = "done"
        /\ req[r].op = "create_post"
        /\ ~Verified(req[r].token, 0)
        /\ resp[r].status = 401
        /\ posts # {}
        /\ users # {}

\* C3: once register has stored (username, password), whatever ran since,
\* a login with that username and password answers 200 with a token that
\* verifies at that instant and holds the id register gave the user; no
\* step removes or changes a stored user.
C3_RegisterThenLogin ==
    [][/\ users \subseteq users'
       /\ \A r \in Req :
            /\ (Steps(r) /\ req'[r].op = "register" /\ resp'[r].status = 201) =>
                  \E u \in users' \ users :
                      /\ u.username = req'[r].username
                      /\ u.password = req'[r].password
            /\ (Steps(r) /\ req'[r].op = "login") =>
                  \A u \in users :
                      (u.username = req'[r].username /\
                       u.password = req'[r].password) =>
                          /\ resp'[r].status = 200
                          /\ Verified(resp'[r].token, now')
                          /\ resp'[r].token.user_id = u.id]_vars

\* C3 witness: the second registered user has logged in, after posts were
\* created, and holds a token with its own id.
C3_Witness ==
    \E r \in Req, u \in users :
        /\ pc[r] = "done"
        /\ req[r].op = "login"
        /\ req[r].username = u.username
        /\ req[r].password = u.password
        /\ u.id = 2
        /\ resp[r].status = 200
        /\ resp[r].token.user_id = u.id
        /\ posts # {}

\* C4: a token login issues at instant t expires at t + 3600 s; the gate
\* lets a token through only before its expiry and only when signed with
\* the application's secret, and answers every protected request that
\* presents a token at or after its expiry with 401 "Invalid token".
C4_TokenExpiry ==
    [][\A r \in Req :
          /\ (Steps(r) /\ req'[r].op = "login" /\ resp'[r].status = 200) =>
                /\ resp'[r].token.exp = now + 3600
                /\ resp'[r].token.key = "super-secret-key"
          /\ (pc[r] = "gate" /\ pc'[r] = "handler") =>
                /\ req[r].token.key = "super-secret-key"
                /\ req[r].token.exp # NoClaim => now < req[r].token.exp
          /\ (/\ pc[r] = "gate"
              /\ Steps(r)
              /\ req[r].token.form = "jwt"
              /\ req[r].token.exp # NoClaim
              /\ req[r].token.exp <= now) =>
                /\ pc'[r] = "done"
                /\ resp'[r] = Response(401, "Invalid token")]_vars

\* C4 witness: a token that login issued was presented after its expiry
\* and answered 401 "Invalid token".
C4_Witness ==
    \E r \in Req :
        /\ pc[r] = "done"
        /\ req[r].op \in ProtectedOps
        /\ req[r].token.form = "jwt"
        /\ req[r].token.key = "super-secret-key"
        /\ req[r].token.user_id # NoClaim
        /\ req[r].token.exp # NoClaim
        /\ req[r].token.exp < now
        /\ resp[r] = Response(401, "Invalid token")

\* C5: a successful update post rewrites, in the row with the path's id,
\* only fields among title and content that the body holds, each to the
\* body's value: the omitted fields keep the value stored when the update
\* is written, and the row's id and owner, every other row and the User
\* table stay as they were.  When the row stored at the write is the row
\* the update loaded, the row becomes exactly the merge of the body into
\* it.  The query that loads the row writes nothing.
C5_PartialUpdate ==
    [][\A r \in Req :
          /\ (/\ pc[r] = "handler"
              /\ req[r].op = "update_post"
              /\ Steps(r)) =>
                 /\ posts' = posts
                 /\ users' = users
          /\ (/\ pc[r] = "commit"
              /\ req[r].op = "update_post"
              /\ pc'[r] = "done"
              /\ resp'[r].status = 200) =>
                 /\ users' = users
                 /\ {p \in posts' : p.id # req[r].id} =
                       {p \in posts : p.id # req[r].id}
                 /\ Cardinality(posts') = Cardinality(posts)
                 /\ \A p \in posts :
                       p.id = req[r].id =>
                          \E q \in posts' :
                             /\ q.id = p.id
                             /\ q.user_id = p.user_id
                             /\ q.title \in {p.title, req'[r].title}
                             /\ q.content \in {p.content, req'[r].content}
                             /\ req'[r].title = Absent => q.title = p.title
                             /\ req'[r].content = Absent =>
                                   q.content = p.content
                             /\ session[r] = p =>
                                   /\ req'[r].title # Absent =>
                                         q.title = req'[r].title
                                   /\ req'[r].content # Absent =>
                                         q.content = req'[r].content]_vars

\* C5 witness: an update that held only a title has run on one of two
\* rows; the row has the new title and still has a content.
C5_Witness ==
    \E r \in Req, p \in posts :
        /\ pc[r] = "done"
        /\ req[r].op = "update_post"
        /\ resp[r].status = 200
        /\ req[r].title = "X"
        /\ req[r].content = Absent
        /\ p.id = req[r].id
        /\ p.title = "X"
        /\ p.content = "C"
        /\ Cardinality(posts) = 2

\* C6 as stated: a delete post behind a valid token is answered 404, with
\* the Post table as it was, when no stored row has the path's id, and
\* otherwise is answered 200 and removes the row with that id and no other.
C6_AsStated ==
    [][\A r \in Req :
          (/\ InBody(r)
           /\ req[r].op = "delete_post"
           /\ pc'[r] = "done") =>
              IF \A p \in posts : p.id # req[r].id
              THEN /\ resp'[r].status = 404
                   /\ posts' = posts
              ELSE /\ resp'[r].status = 200
                   /\ posts' = {p \in posts : p.id # req[r].id}]_vars

\* C6 amended: delete post behind a valid token looks the path's id up:
\* when no row has it then, the answer is 404 and the Post table stays as
\* it was; when a row has it, the request goes on to its commit, which
\* answers 200 and leaves the table without a row of that id and with every
\* other row as it was, also when another request has removed the row since
\* the lookup.  No step of a delete touches the User table.
C6_Delete ==
    [][\A r \in Req :
          /\ (/\ pc[r] = "handler"
              /\ req[r].op = "delete_post"
              /\ Steps(r)) =>
                 /\ posts' = posts
                 /\ users' = users
                 /\ IF \A p \in posts : p.id # req[r].id
                    THEN /\ pc'[r] = "done"
                         /\ resp'[r] = Response(404, "Not found")
                    ELSE /\ pc'[r] = "commit"
                         /\ session'[r] \in posts
                         /\ session'[r].id = req[r].id
          /\ (/\ pc[r] = "commit"
              /\ req[r].op = "delete_post"
              /\ Steps(r)) =>
                 /\ pc'[r] = "done"
                 /\ resp'[r].status = 200
                 /\ users' = users
                 /\ posts' = {p \in posts : p.id # req[r].id}]_vars

\* C6 witness: one delete has removed a row and left the other row, and a
\* later delete of the same id was answered 404.
C6_Witness ==
    \E r \in Req, q \in Req :
        /\ pc[r] = "done"
        /\ req[r].op = "delete_post"
        /\ resp[r].status = 404
        /\ pc[q] = "done"
        /\ req[q].op = "delete_post"
        /\ resp[q].status = 200
        /\ req[q].id = req[r].id
        /\ posts # {}
        /\ \A p \in posts : p.id # req[r].id

\* C7: every stored post's owner is the id of a stored user, and so is the
\* user id of every token login has issued.
C7_OwnerExists ==
    /\ \A p \in posts : \E u \in users : u.id = p.user_id
    /\ \A t \in wallet : \E u \in users : u.id = t.user_id

\* C7 witness: two posts owned by two different users are stored.
C7_Witness ==
    \E p \in posts, q \in posts :
        /\ p.user_id # q.user_id
        /\ \E u \in users : u.id = p.user_id
        /\ \E u \in users : u.id = q.user_id

\* C8: update post and delete post do not look at the owner.  With the
\* valid token of a user other than the owner of the row with the path's
\* id, the query loads the row and goes on to the commit, and the commit on
\* a row of another user answers 200: the delete removes the row, and the
\* update writes the body's fields into the row it loaded.
C8_NoOwnershipCheck ==
    [][\A r \in Req :
          \A p \in posts :
            (/\ req[r].op \in {"update_post", "delete_post"}
             /\ p.id = req[r].id
             /\ p.user_id # req[r].token.user_id
             /\ Steps(r)) =>
                /\ pc[r] = "handler" =>
                      /\ pc'[r] = "commit"
                      /\ session'[r] = p
                /\ pc[r] = "commit" =>
                      /\ pc'[r] = "done"
                      /\ resp'[r].status = 200
                      /\ req[r].op = "delete_post" =>
                            \A q \in posts' : q.id # p.id
                      /\ (req[r].op = "update_post" /\ session[r] = p) =>
                            \E q \in posts' :
                                /\ q.id = p.id
                                /\ q.user_id = p.user_id
                                /\ req'[r].title # Absent =>
                                      q.title = req'[r].title
                                /\ req'[r].content # Absent =>
                                      q.content = req'[r].content]_vars

\* C8 witness: a user has updated a post that another user owns.
C8_Witness ==
    \E r \in Req, p \in posts :
        /\ pc[r] = "done"
        /\ req[r].op = "update_post"
        /\ resp[r].status = 200
        /\ p.id = req[r].id
        /\ p.user_id # req[r].token.user_id
        /\ \E u \in users : u.id = req[r].token.user_id
        /\ req[r].title = "X"
        /\ p.title = "X"

\* C9: with requests of different users in flight at once, a request at its
\* body has the user id of its own token bound, a request elsewhere has
\* nothing bound, and a create post stores the user id of its own token as
\* the owner of the one row it adds.
C9_RequestScoped ==
    /\ [](\A r \in Req :
             /\ InBody(r) => g[r].user_id = req[r].token.user_id
             /\ ~InBody(r) => g[r] = EmptyG)
    /\ [][\A r \in Req :
             (/\ pc[r] = "handler"
              /\ req[r].op = "create_post"
              /\ pc'[r] = "done"
              /\ resp'[r].status = 201) =>
                 \E p \in posts' \ posts :
                     /\ posts' = posts \cup {p}
                     /\ p.user_id = req[r].token.user_id]_vars

\* C9 witness: one request has created a post while the request of another
\* user stood at its body, and the post is owned by the first.
C9_Witness ==
    \E r \in Req, q \in Req, p \in posts :
        /\ pc[r] = "done"
        /\ req[r].op = "create_post"
        /\ resp[r].status = 201
        /\ pc[q] = "handler"
        /\ g[q].user_id # req[r].token.user_id
        /\ p.user_id = req[r].token.user_id
        /\ Cardinality(posts) = 1

\* The row at position k of the Post table in id order.
AtPosition(k) ==
    CHOOSE p \in posts : Cardinality({q \in posts : q.id <= p.id}) = k

\* The array the claims expect for page n: the rows at positions
\* 5(n-1)+1 .. 5n that the table has, as {id, title, content}.
ExpectedPage(n) ==
    LET first == 5 * (n - 1) + 1
        last == IF 5 * n <= Cardinality(posts) THEN 5 * n ELSE Cardinality(posts)
    IN  [k \in 1..(last - first + 1) |->
            [id |-> AtPosition(first + k - 1).id,
             title |-> AtPosition(first + k - 1).title,
             content |-> AtPosition(first + k - 1).content]]

\* C10 as stated: list posts with page N >= 1 answers 200 with the rows at
\* positions 5(N-1)+1 .. 5N of the table in id order, an empty array when N
\* is past the last page.
C10_AsStated ==
    \A r \in Req :
        (pc[r] = "done" /\ req[r].op = "get_posts" /\ req[r].page >= 1) =>
            /\ resp[r].status = 200
            /\ resp[r].items = ExpectedPage(req[r].page)

\* C10 amended: list posts with page N >= 1 answers 200 with the rows at
\* positions 5(N-1)+1 .. 5N of the table in id order when N = 1 or the
\* table has a row at position 5(N-1)+1, and 404 "Not found" when N > 1 is
\* past the last page: with 12 posts, page 1 holds posts 1-5, page 3 holds
\* posts 11-12, and page 4 is answered 404.
C10_Pagination ==
    \A r \in Req :
        (pc[r] = "done" /\ req[r].op = "get_posts" /\ req[r].page >= 1) =>
            LET n == req[r].page
            IN  /\ (n = 1 \/ 5 * (n - 1) < Cardinality(posts)) =>
                      /\ resp[r].status = 200
                      /\ resp[r].items = ExpectedPage(n)
                /\ (n > 1 /\ 5 * (n - 1) >= Cardinality(posts)) =>
                      resp[r] = Response(404, "Not found")
                /\ ({p.id : p \in posts} = 1..12 /\ resp[r].status = 200) =>
                      /\ n = 1 => [k \in 1..Len(resp[r].items) |->
                                      resp[r].items[k].id] = <<1, 2, 3, 4, 5>>
                      /\ n = 3 => [k \in 1..Len(resp[r].items) |->
                                      resp[r].items[k].id] = <<11, 12>>
                /\ ({p.id : p \in posts} = 1..12 /\ n \in {1, 3}) =>
                      resp[r].status = 200

\* C10 witness: with 12 posts, page 4 was asked for and answered 404.
C10_Witness ==
    \E r \in Req :
        /\ pc[r] = "done"
        /\ req[r].op = "get_posts"
        /\ req[r].page = 4
        /\ Cardinality(posts) = 12
        /\ resp[r] = Response(404, "Not found")

====
